---- MODULE Spec2Model ----
(***************************************************************************)
(* Client-side terminal views of CloudBridge:                              *)
(*   - TerminalManagementPage (pages/terminal-management-page.tsx), the    *)
(*     multi-pane view opened from the SSH tab, view = "page";             *)
(*   - TerminalComponent (components/terminal/terminal-component.tsx),     *)
(*     the pane component hosted by TerminalPage, view = "component";      *)
(*   - SSHTab (components/tabs/ssh-tab.tsx), the instance list whose       *)
(*     Connect button navigates to the multi-pane view, view = "ssh".      *)
(* Both keep a Map terminalSessions (instanceId -> TerminalSession) in     *)
(* React state and create one browser WebSocket per connectToInstance.     *)
(*                                                                         *)
(* React semantics the model relies on:                                    *)
(*   - a handler created in a render reads the terminalSessions of that    *)
(*     render; click handlers belong to the latest render, setTimeout      *)
(*     callbacks and useEffect(..., []) cleanups to the render that        *)
(*     created them;                                                       *)
(*   - setTerminalSessions(prev => ...) is applied to the current state;   *)
(*   - after unmount the component state is gone and setState is ignored.  *)
(* WebSocket semantics: CONNECTING -> OPEN -> CLOSING -> CLOSED, message   *)
(* events only while OPEN, a failure fires error and close in one task.    *)
(***************************************************************************)
EXTENDS Integers, Sequences, FiniteSets, TLC

\* ---- bounds of the model ----
MaxLoads == 3
MaxSockets == 2
MaxFrames == 2
MaxClock == 2
MaxPanes == 3
MaxLog == 2
MaxTimers == 2
MaxPageSteps == 12
MaxComponentSteps == 8
MaxRows == 3

VARIABLES
    sshInstances,      \* SSH tab: data of useQuery ["/api/ec2-instances/all"]
    selectedInstances, \* SSH tab: the Set of selected instance ids
    searchQuery,       \* SSH tab: the text of the search box
    stateFilter,       \* SSH tab: the value of the Current State select
    sshToast,          \* SSH tab: the title of the last toast of handleConnect
    view,              \* "ssh" | "page" | "component"
    location,          \* the route shown by the router
    mounted,           \* the view is mounted
    urlIds,            \* page: the `instances` query parameter, split on ','
    allInstances,      \* page: data of useQuery ["/api/ec2-instances/all"]
    instances,         \* component: the `instances` prop
    credentialId,      \* component: the `credentialId` prop (0 = undefined)
    terminalSessions,  \* the Map of the latest render, in insertion order
    selectAll,         \* page: selectAll state
    timers,            \* pending setTimeout(..., 500) callbacks, in order
    sockets,           \* every WebSocket the view has constructed
    now,               \* Date.now()
    loads,             \* number of runs of the initialising effect
    delivered,         \* message events whose tag matched the socket's pane
    steps,             \* number of events handled so far
    scrolledUp         \* the panes whose log element is scrolled above its end

\* the state of the SSH tab
sshVars == <<sshInstances, selectedInstances, searchQuery, stateFilter, sshToast>>

vars == <<sshVars, view, location, mounted, urlIds, allInstances, instances, credentialId,
          terminalSessions, selectAll, timers, sockets, now, loads, delivered,
          steps, scrolledUp>>

\* ---- inventory ----
InstanceIds == {"i1", "i2"}

InstanceOf(i) ==
    [instanceId |-> i,
     name |-> IF i = "i1" THEN "web" ELSE "db",
     privateIp |-> IF i = "i1" THEN "10.0.0.1" ELSE "10.0.0.2",
     keyName |-> IF i = "i1" THEN "key-a" ELSE "key-b",
     region |-> IF i = "i1" THEN "us-east-1" ELSE "eu-west-1",
     credentialId |-> IF i = "i1" THEN 2 ELSE IF i = "i3" THEN 3 ELSE 0,
     state |-> IF i = "i2" THEN "stopped" ELSE "running"]

NoInstance == InstanceOf("none")

\* results of the inventory query, as arrays of instance ids
Inventories == {<<"i1", "i2">>, <<"i2">>}
\* values of the `instances` query parameter after split(',')
LaunchLists == {<<"i1", "i2", "i9">>}
\* values of the `instances` prop of TerminalComponent
InstanceLists == {<<"i1">>, <<"i1", "i2">>}
\* values of the `credentialId` prop
CredentialProps == {0, 7}

\* ---- JavaScript Map<string, TerminalSession>, kept in insertion order ----
Keys(m) == {m[k].instanceId : k \in DOMAIN m}
Has(m, id) == id \in Keys(m)
Get(m, id) == m[CHOOSE k \in DOMAIN m : m[k].instanceId = id]
MapSet(m, id, v) ==
    IF Has(m, id)
    THEN [k \in DOMAIN m |-> IF m[k].instanceId = id THEN v ELSE m[k]]
    ELSE Append(m, v)
MapDelete(m, id) == SelectSeq(m, LAMBDA x : x.instanceId # id)

SeqContains(s, x) == \E k \in DOMAIN s : s[k] = x

\* array.filter(x => ids.includes(x))
FilterIn(arr, ids) == SelectSeq(arr, LAMBDA x : SeqContains(ids, x))

\* the session object literal of the initialising effects
NewSession(i) ==
    [instanceId |-> <<i>>,
     instance |-> InstanceOf(i),
     isConnected |-> FALSE,
     output |-> <<>>,
     currentCommand |-> "",
     ws |-> 0,
     isSelected |-> FALSE]

\* arr.forEach(instance => newSessions.set(instance.instanceId, {...}))
RECURSIVE SetAll(_, _)
SetAll(m, arr) ==
    IF arr = <<>> THEN m
    ELSE SetAll(MapSet(m, <<Head(arr)>>, NewSession(Head(arr))), Tail(arr))

NewSessions(arr) == SetAll(<<>>, arr)

\* ---- state updaters: the functions passed to setTerminalSessions ----

\* mutant: an entry for a pane that is not in the Map creates the pane
addOutput_create(m, id, type, content) ==
    MapSet(m, id,
           [(IF Has(m, id) THEN Get(m, id)
             ELSE [instanceId |-> id, instance |-> NoInstance, isConnected |-> FALSE,
                   output |-> <<>>, currentCommand |-> "", ws |-> 0,
                   isSelected |-> FALSE])
            EXCEPT !.output = Append(@, [type |-> type, content |-> content,
                                         instanceId |-> id])])

\* addOutput: append one entry to the log of pane id, if the pane exists
addOutput(m, id, type, content) ==
    IF Has(m, id)
    THEN MapSet(m, id, [Get(m, id) EXCEPT
             !.output = Append(@, [type |-> type, content |-> content,
                                   instanceId |-> id])])
    ELSE m

\* mutant: the socket is not stored in the session
MarkConnected_flagonly(m, id, s) ==
    IF Has(m, id)
    THEN MapSet(m, id, [Get(m, id) EXCEPT !.isConnected = TRUE])
    ELSE m

\* prev => { ...currentSession, ws: websocket, isConnected: true }
MarkConnected(m, id, s) ==
    IF Has(m, id)
    THEN MapSet(m, id, [Get(m, id) EXCEPT !.ws = s, !.isConnected = TRUE])
    ELSE m

\* mutant: marking a pane disconnected also writes to its log
MarkDisconnected_logged(m, id) ==
    IF Has(m, id)
    THEN MapSet(m, id, [Get(m, id) EXCEPT
             !.ws = 0, !.isConnected = FALSE,
             !.output = Append(@, [type |-> "system", content |-> <<"Disconnected">>,
                                   instanceId |-> id])])
    ELSE m

\* prev => { ...currentSession, isConnected: false, ws: null }
MarkDisconnected(m, id) ==
    IF Has(m, id)
    THEN MapSet(m, id, [Get(m, id) EXCEPT !.ws = 0, !.isConnected = FALSE])
    ELSE m

\* prev => { ...currentSession, currentCommand: c }
SetCommand(m, id, c) ==
    IF Has(m, id)
    THEN MapSet(m, id, [Get(m, id) EXCEPT !.currentCommand = c])
    ELSE m

\* ---- WebSocket objects ----
Live == {"connecting", "open"}

\* websocket.close(): starts the closing handshake of a live socket
CloseOne(sock) ==
    [sock EXCEPT !.closeCalls = @ + 1,
                 !.readyState = IF @ \in Live THEN "closing" ELSE @]

\* session.ws.close() for every socket in S
CloseEach(socks, S) ==
    [s \in DOMAIN socks |-> IF s \in S THEN CloseOne(socks[s]) ELSE socks[s]]

\* websocket.send(msg): data is transmitted only while the socket is OPEN
SendOn(socks, s, msg) ==
    IF socks[s].readyState = "open"
    THEN [socks EXCEPT ![s].sent = Append(@, msg)]
    ELSE socks

\* the sockets referenced by the sessions of a Map: session.ws, when set
WsOf(m) == {m[k].ws : k \in DOMAIN m} \ {0}

RECURSIVE SumRx(_)
SumRx(socks) == IF socks = <<>> THEN 0 ELSE Head(socks).rx + SumRx(Tail(socks))

\* what connectToInstance reads of the terminalSessions of its closure:
\* terminalSessions.get(instanceId) and, when found, session.instance
Capture(m, id) ==
    IF Has(m, id)
    THEN [found |-> TRUE, instance |-> Get(m, id).instance]
    ELSE [found |-> FALSE, instance |-> NoInstance]

\* session.instance.credentialId || 1
PageCredential(inst) == IF inst.credentialId = 0 THEN 1 ELSE inst.credentialId

NewSocket(id, inst, cred) ==
    [instanceId |-> id, instance |-> inst, credentialId |-> cred,
     readyState |-> "connecting", sent |-> <<>>, rx |-> 0, closeCalls |-> 0]

\* mutant: the component connects without a credentialId
connectToInstance_nocred(id, cap, cred, throws) ==
    IF ~cap.found
    THEN UNCHANGED <<sockets, terminalSessions>>
    ELSE IF throws
    THEN /\ Has(terminalSessions, id) => Len(Get(terminalSessions, id).output) < MaxLog
         /\ terminalSessions' =
              addOutput(terminalSessions, id, "error", <<"Failed to connect">>)
         /\ UNCHANGED sockets
    ELSE /\ Len(sockets) < MaxSockets
         /\ sockets' = Append(sockets,
              NewSocket(id, cap.instance,
                        IF view = "page" THEN PageCredential(cap.instance) ELSE cred))
         /\ UNCHANGED terminalSessions

\* connectToInstance(instanceId) run with the closure values cap and cred;
\* throws: the WebSocket constructor throws and the catch block runs
connectToInstance(id, cap, cred, throws) ==
    IF ~cap.found \/ (view = "component" /\ cred = 0)
    THEN UNCHANGED <<sockets, terminalSessions>>
    ELSE IF throws
    THEN /\ Has(terminalSessions, id) => Len(Get(terminalSessions, id).output) < MaxLog
         /\ terminalSessions' =
              addOutput(terminalSessions, id, "error", <<"Failed to connect">>)
         /\ UNCHANGED sockets
    ELSE /\ Len(sockets) < MaxSockets
         /\ sockets' = Append(sockets,
              NewSocket(id, cap.instance,
                        IF view = "page" THEN PageCredential(cap.instance) ELSE cred))
         /\ UNCHANGED terminalSessions

ConnectMessage(sock) ==
    [type |-> "connect", host |-> sock.instance.privateIp, username |-> "ec2-user",
     keyName |-> sock.instance.keyName, region |-> sock.instance.region,
     credentialId |-> sock.credentialId, instanceId |-> sock.instanceId]

OpenText == IF view = "page" THEN "Connected to" ELSE "Connecting to"

\* websocket.onopen
onopen(m, s) ==
    addOutput(MarkConnected(m, sockets[s].instanceId, s), sockets[s].instanceId,
              "system",
              <<OpenText, sockets[s].instance.name, sockets[s].instance.privateIp>>)

\* websocket.onmessage: data.instanceId === instanceId, data.type || "output",
\* data.message || data.data  (<<>> stands for an absent field)
Absent == <<>>
FrameContent(f) == IF f.message # Absent THEN f.message ELSE f.data
FrameType(f) == IF f.type = "" THEN "output" ELSE f.type
\* mutant: the handler ignores the tag of the frame
onmessage_untagged(m, s, f) ==
    addOutput(m, sockets[s].instanceId, FrameType(f), FrameContent(f))

onmessage(m, s, f) ==
    IF f.instanceId = sockets[s].instanceId
    THEN addOutput(m, sockets[s].instanceId, FrameType(f), FrameContent(f))
    ELSE m

\* websocket.onerror
onerror(m, s) ==
    MarkDisconnected(
        addOutput(m, sockets[s].instanceId, "error", <<"WebSocket connection error">>),
        sockets[s].instanceId)

\* mutant: a close marks every pane disconnected
onclose_all(m, s) ==
    LET logged == addOutput(m, sockets[s].instanceId, "system", <<"Connection closed">>)
    IN [k \in DOMAIN logged |-> [logged[k] EXCEPT !.ws = 0, !.isConnected = FALSE]]

\* websocket.onclose
onclose(m, s) ==
    MarkDisconnected(
        addOutput(m, sockets[s].instanceId, "system", <<"Connection closed">>),
        sockets[s].instanceId)

\* ================= actions =================

\* the auto-scroll effect, deps [terminalSessions]: after a render with a new
\* Map every pane's log element is scrolled to its end (scrollTop =
\* scrollHeight); a state update that leaves the content of the Map as it was
\* is not told apart from no update
autoScroll ==
    scrolledUp' = IF terminalSessions' # terminalSessions
                  THEN scrolledUp \ Keys(terminalSessions')
                  ELSE scrolledUp

\* the operator scrolls the log of pane id up
ScrollUp(id) ==
    /\ steps < (IF view = "page" THEN MaxPageSteps ELSE MaxComponentSteps)
    /\ steps' = steps + 1
    /\ mounted
    /\ view \in {"page", "component"}
    /\ Has(terminalSessions, id)
    /\ Get(terminalSessions, id).output # <<>>
    /\ id \notin scrolledUp
    /\ scrolledUp' = scrolledUp \cup {id}
    /\ UNCHANGED <<sshVars, view, location, mounted, urlIds,
                   allInstances, instances, credentialId, terminalSessions, selectAll,
                   timers, sockets, now, loads, delivered>>

\* every action handles one event
MaxSteps == IF view = "page" THEN MaxPageSteps ELSE MaxComponentSteps
Step == steps < MaxSteps /\ steps' = steps + 1

\* ---- environment: the clock and the WebSocket events ----

\* time passes; instants at which nothing was scheduled are not observable
Tick ==
    /\ Step
    /\ now < MaxClock
    /\ \E k \in DOMAIN timers : timers[k].at = now
    /\ now' = now + 1
    /\ UNCHANGED <<sshVars, view, location, mounted, urlIds, allInstances, instances, credentialId,
                   terminalSessions, selectAll, timers, sockets, loads, delivered>>
    /\ autoScroll

\* the open event of socket s: onopen runs, then the connect request is sent
SocketOpen(s) ==
    /\ Step
    /\ sockets[s].readyState = "connecting"
    /\ terminalSessions' = onopen(terminalSessions, s)
    /\ sockets' = SendOn([sockets EXCEPT ![s].readyState = "open"], s,
                         ConnectMessage(sockets[s]))
    /\ UNCHANGED <<sshVars, view, location, mounted, urlIds, allInstances, instances, credentialId,
                   selectAll, timers, now, loads, delivered>>
    /\ autoScroll

\* frames the server can put on socket s as its next message
Frames(s) ==
    LET payload == <<"frame", s, sockets[s].rx + 1>> IN
    {[instanceId |-> t, type |-> form[1], message |-> form[2], data |-> payload] :
        t \in {sockets[s].instanceId, <<"unknown">>} \cup Keys(terminalSessions),
        form \in {<<"", Absent>>, <<"output", payload>>}}

\* a message event of socket s carrying frame f
SocketMessage(s, f) ==
    /\ Step
    /\ sockets[s].readyState = "open"
    /\ SumRx(sockets) < MaxFrames
    /\ terminalSessions' = onmessage(terminalSessions, s, f)
    /\ sockets' = [sockets EXCEPT ![s].rx = @ + 1]
    /\ delivered' = IF f.instanceId = sockets[s].instanceId
                    THEN Append(delivered, [instanceId |-> f.instanceId,
                                            content |-> FrameContent(f)])
                    ELSE delivered
    /\ UNCHANGED <<sshVars, view, location, mounted, urlIds, allInstances, instances, credentialId,
                   selectAll, timers, now, loads>>
    /\ autoScroll

\* mutant: a failed connection is opened again at once
SocketFail_retry(s) ==
    /\ Step
    /\ sockets[s].readyState # "closed"
    /\ Len(sockets) < MaxSockets
    /\ terminalSessions' = onclose(onerror(terminalSessions, s), s)
    /\ sockets' = Append([sockets EXCEPT ![s].readyState = "closed"],
                         NewSocket(sockets[s].instanceId, sockets[s].instance,
                                   sockets[s].credentialId))
    /\ UNCHANGED <<sshVars, view, location, mounted, urlIds, allInstances, instances, credentialId,
                   selectAll, timers, now, loads, delivered>>
    /\ autoScroll

\* the connection of socket s fails: error and close fire in the same task
SocketFail(s) ==
    /\ Step
    /\ sockets[s].readyState # "closed"
    /\ terminalSessions' = onclose(onerror(terminalSessions, s), s)
    /\ sockets' = [sockets EXCEPT ![s].readyState = "closed"]
    /\ UNCHANGED <<sshVars, view, location, mounted, urlIds, allInstances, instances, credentialId,
                   selectAll, timers, now, loads, delivered>>
    /\ autoScroll

\* socket s closes cleanly (closed by the server, or the end of the closing
\* handshake that close() started): the close event
SocketClose(s) ==
    /\ Step
    /\ sockets[s].readyState \in {"open", "closing"}
    /\ terminalSessions' = onclose(terminalSessions, s)
    /\ sockets' = [sockets EXCEPT ![s].readyState = "closed"]
    /\ UNCHANGED <<sshVars, view, location, mounted, urlIds, allInstances, instances, credentialId,
                   selectAll, timers, now, loads, delivered>>
    /\ autoScroll

\* the oldest setTimeout(() => connectToInstance(id), 500) callback runs
TimerFire(throws) ==
    /\ Step
    /\ timers # <<>>
    /\ now > Head(timers).at
    /\ timers' = Tail(timers)
    /\ connectToInstance(Head(timers).instanceId, Head(timers).cap, 0, throws)
    /\ UNCHANGED <<sshVars, view, location, mounted, urlIds, allInstances, instances, credentialId,
                   selectAll, now, loads, delivered>>
    /\ autoScroll

\* the terminalSessions captured by the useEffect(..., []) cleanup: the Map of
\* the first render, useState's initial value new Map()
firstRenderSessions == <<>>

\* the view is unmounted: the cleanup effect runs, the state is discarded
Teardown(socks) == CloseEach(socks, WsOf(firstRenderSessions))

Unmount ==
    /\ Step
    /\ mounted
    /\ mounted' = FALSE
    /\ sockets' = Teardown(sockets)
    /\ terminalSessions' = <<>>
    /\ UNCHANGED <<sshVars, view, location, urlIds, allInstances, instances, credentialId,
                   selectAll, timers, now, loads, delivered>>
    /\ autoScroll

\* ---- TerminalManagementPage ----

\* the timers of selectedInstances.forEach(instance => setTimeout(...))
RECURSIVE StartupTimers(_, _, _)
StartupTimers(arr, m, t) ==
    IF arr = <<>> THEN <<>>
    ELSE <<[instanceId |-> <<Head(arr)>>, cap |-> Capture(m, <<Head(arr)>>), at |-> t]>>
         \o StartupTimers(Tail(arr), m, t)

\* the inventory query delivers inv: the initialising effect runs
InventoryLoad(inv) ==
    /\ Step
    /\ view = "page" /\ mounted
    /\ loads < MaxLoads
    /\ loads' = loads + 1
    /\ allInstances' = inv
    /\ IF Len(urlIds) > 0 /\ Len(inv) > 0
       THEN LET selected == FilterIn(inv, urlIds) IN
            /\ Len(timers) + Len(selected) <= MaxTimers
            /\ terminalSessions' = NewSessions(selected)
            /\ timers' = timers \o StartupTimers(selected, terminalSessions, now)
       ELSE UNCHANGED <<terminalSessions, timers>>
    /\ UNCHANGED <<sshVars, view, location, mounted, urlIds, instances, credentialId,
                   selectAll, sockets, now, delivered>>
    /\ autoScroll

\* the page renders its controls once the query has data
PageReady == view = "page" /\ mounted /\ loads > 0

\* `${instanceId}_duplicate_${Date.now()}`
DuplicateId(id, t) == Append(id, t)

duplicateSession(id) ==
    IF ~Has(terminalSessions, id)
    THEN UNCHANGED <<terminalSessions, timers>>
    ELSE LET newInstanceId == DuplicateId(id, now)
             newSession == [Get(terminalSessions, id) EXCEPT
                               !.instanceId = newInstanceId,
                               !.isConnected = FALSE,
                               !.output = <<>>,
                               !.currentCommand = "",
                               !.ws = 0,
                               !.isSelected = FALSE]
         IN /\ terminalSessions' = MapSet(terminalSessions, newInstanceId, newSession)
            /\ timers' = Append(timers,
                   [instanceId |-> newInstanceId,
                    cap |-> Capture(terminalSessions, newInstanceId),
                    at |-> now])

\* "Duplicate Session" menu item: duplicateSession(sessions[0].instanceId)
DuplicateClick ==
    /\ Step
    /\ PageReady
    /\ Len(terminalSessions) > 0
    /\ Len(terminalSessions) < MaxPanes
    /\ Len(timers) < MaxTimers
    /\ duplicateSession(terminalSessions[1].instanceId)
    /\ UNCHANGED <<sshVars, view, location, mounted, urlIds, allInstances, instances, credentialId,
                   selectAll, sockets, now, loads, delivered>>
    /\ autoScroll

\* closeTerminal(instanceId), run by a handler of render `closure` on the
\* state <<m, socks>>; the result is the new <<Map, sockets>>
closeTerminalCall(closure, m, socks, id) ==
    <<MapDelete(m, id),
      IF Has(closure, id)
      THEN CloseEach(socks, {Get(closure, id).ws} \ {0})
      ELSE socks>>

\* the X button of a pane
closeTerminal(id) ==
    LET r == closeTerminalCall(terminalSessions, terminalSessions, sockets, id)
    IN /\ terminalSessions' = r[1]
       /\ sockets' = r[2]

CloseTerminalClick(id) ==
    /\ Step
    /\ PageReady
    /\ Has(terminalSessions, id)
    /\ closeTerminal(id)
    /\ UNCHANGED <<sshVars, view, location, mounted, urlIds, allInstances, instances, credentialId,
                   selectAll, timers, now, loads, delivered>>
    /\ autoScroll

\* "Exit Terminals": close every session.ws, then setLocation("/"), which
\* unmounts the page
exitTerminals ==
    /\ sockets' = Teardown(CloseEach(sockets, WsOf(terminalSessions)))
    /\ location' = "/"
    /\ mounted' = FALSE
    /\ terminalSessions' = <<>>

ExitTerminalsClick ==
    /\ Step
    /\ PageReady
    /\ exitTerminals
    /\ UNCHANGED <<sshVars, view, urlIds, allInstances, instances, credentialId,
                   selectAll, timers, now, loads, delivered>>
    /\ autoScroll

\* "Select All"
toggleSelectAll ==
    LET newSelectAll == ~selectAll IN
    /\ selectAll' = newSelectAll
    /\ terminalSessions' = [k \in DOMAIN terminalSessions |->
                               [terminalSessions[k] EXCEPT !.isSelected = newSelectAll]]

ToggleSelectAllClick ==
    /\ Step
    /\ PageReady
    /\ toggleSelectAll
    /\ UNCHANGED <<sshVars, view, location, mounted, urlIds, allInstances, instances, credentialId,
                   timers, sockets, now, loads, delivered>>
    /\ autoScroll

\* the checkbox of a pane
toggleTerminalSelection(id) ==
    terminalSessions' =
        IF Has(terminalSessions, id)
        THEN MapSet(terminalSessions, id,
                    [Get(terminalSessions, id) EXCEPT !.isSelected = ~@])
        ELSE terminalSessions

ToggleSelectionClick(id) ==
    /\ Step
    /\ PageReady
    /\ Has(terminalSessions, id)
    /\ toggleTerminalSelection(id)
    /\ UNCHANGED <<sshVars, view, location, mounted, urlIds, allInstances, instances, credentialId,
                   selectAll, timers, sockets, now, loads, delivered>>
    /\ autoScroll

\* selectedSessions.forEach(session => setTerminalSessions(prev => ...))
RECURSIVE MarkAllDisconnected(_, _)
MarkAllDisconnected(m, arr) ==
    IF arr = <<>> THEN m
    ELSE MarkAllDisconnected(MarkDisconnected(m, Head(arr).instanceId), Tail(arr))

\* mutant: every connected pane is disconnected, selected or not
disconnectSelected_all ==
    LET selectedSessions == SelectSeq(terminalSessions, LAMBDA x : x.isConnected)
    IN IF Len(selectedSessions) = 0
       THEN UNCHANGED <<sockets, terminalSessions>>
       ELSE /\ sockets' = CloseEach(sockets, WsOf(selectedSessions))
            /\ terminalSessions' = MarkAllDisconnected(terminalSessions, selectedSessions)

\* "Disconnect Selected"
disconnectSelected ==
    LET selectedSessions ==
            SelectSeq(terminalSessions, LAMBDA x : x.isSelected /\ x.isConnected)
    IN IF Len(selectedSessions) = 0
       THEN UNCHANGED <<sockets, terminalSessions>>
       ELSE /\ sockets' = CloseEach(sockets, WsOf(selectedSessions))
            /\ terminalSessions' = MarkAllDisconnected(terminalSessions, selectedSessions)

DisconnectSelectedClick ==
    /\ Step
    /\ PageReady
    /\ disconnectSelected
    /\ UNCHANGED <<sshVars, view, location, mounted, urlIds, allInstances, instances, credentialId,
                   selectAll, timers, now, loads, delivered>>
    /\ autoScroll

\* sendCommand(instanceId, command), run by a handler of render `closure` on
\* the state <<m, socks>>; the result is the new <<Map, sockets>>
CommandMessage(id, command) ==
    [type |-> "command", command |-> command, instanceId |-> id]

\* mutant: the command is sent without the echo in the log
sendCommand_noecho(closure, m, socks, id, command) ==
    IF Has(closure, id) /\ Get(closure, id).ws # 0 /\ Get(closure, id).isConnected
    THEN <<SetCommand(m, id, ""),
           SendOn(socks, Get(closure, id).ws, CommandMessage(id, command))>>
    ELSE <<m, socks>>

sendCommand(closure, m, socks, id, command) ==
    IF Has(closure, id) /\ Get(closure, id).ws # 0 /\ Get(closure, id).isConnected
    THEN <<SetCommand(addOutput(m, id, "input", <<"$ ", command>>), id, ""),
           SendOn(socks, Get(closure, id).ws, CommandMessage(id, command))>>
    ELSE <<m, socks>>

\* connectedSessions.forEach(session => { addOutput(...); sendCommand(...) })
RECURSIVE UploadAll(_, _, _, _, _)
UploadAll(closure, m, socks, arr, file) ==
    IF arr = <<>> THEN <<m, socks>>
    ELSE LET id == Head(arr).instanceId
             r == sendCommand(closure,
                              addOutput(m, id, "system", <<"Uploading ", file>>),
                              socks, id, <<"scp ", file, " ./">>)
         IN UploadAll(closure, r[1], r[2], Tail(arr), file)

Files == {"a.txt"}

\* "Upload File": the change event of the hidden file input
handleFileUpload(file) ==
    LET connectedSessions == SelectSeq(terminalSessions, LAMBDA x : x.isConnected)
        r == UploadAll(terminalSessions, terminalSessions, sockets,
                       connectedSessions, file)
    IN IF Len(connectedSessions) = 0
       THEN UNCHANGED <<sockets, terminalSessions>>
       ELSE /\ terminalSessions' = r[1]
            /\ sockets' = r[2]

FileUpload(file) ==
    /\ Step
    /\ PageReady
    /\ \A k \in DOMAIN terminalSessions :
          terminalSessions[k].isConnected => Len(terminalSessions[k].output) < MaxLog
    /\ handleFileUpload(file)
    /\ UNCHANGED <<sshVars, view, location, mounted, urlIds, allInstances, instances, credentialId,
                   selectAll, timers, now, loads, delivered>>
    /\ autoScroll

\* ---- TerminalComponent ----
ComponentReady == view = "component" /\ mounted

\* the parent re-renders with a new `instances` array: the initialising
\* effect runs again
InstancesChange(arr) ==
    /\ Step
    /\ ComponentReady
    /\ loads < MaxLoads
    /\ loads' = loads + 1
    /\ instances' = arr
    /\ terminalSessions' = NewSessions(arr)
    /\ UNCHANGED <<sshVars, view, location, mounted, urlIds, allInstances, credentialId,
                   selectAll, timers, sockets, now, delivered>>
    /\ autoScroll

\* the Connect button, rendered while !session.isConnected
ConnectClick(id, throws) ==
    /\ Step
    /\ ComponentReady
    /\ Has(terminalSessions, id)
    /\ ~Get(terminalSessions, id).isConnected
    /\ connectToInstance(id, Capture(terminalSessions, id), credentialId, throws)
    /\ UNCHANGED <<sshVars, view, location, mounted, urlIds, allInstances, instances, credentialId,
                   selectAll, timers, now, loads, delivered>>
    /\ autoScroll

\* disconnectFromInstance(instanceId), run by a handler of render `closure`
\* on the state <<m, socks>>; the result is the new <<Map, sockets>>
disconnectFromInstanceCall(closure, m, socks, id) ==
    <<MarkDisconnected(m, id),
      IF Has(closure, id)
      THEN CloseEach(socks, {Get(closure, id).ws} \ {0})
      ELSE socks>>

disconnectFromInstance(id) ==
    LET r == disconnectFromInstanceCall(terminalSessions, terminalSessions, sockets, id)
    IN /\ terminalSessions' = r[1]
       /\ sockets' = r[2]

\* the Disconnect button, rendered while session.isConnected
DisconnectClick(id) ==
    /\ Step
    /\ ComponentReady
    /\ Has(terminalSessions, id)
    /\ Get(terminalSessions, id).isConnected
    /\ disconnectFromInstance(id)
    /\ UNCHANGED <<sshVars, view, location, mounted, urlIds, allInstances, instances, credentialId,
                   selectAll, timers, now, loads, delivered>>
    /\ autoScroll

Commands == {"", "ls"}

\* typing in the command input, enabled while session.isConnected
updateCommand(id, command) ==
    terminalSessions' = SetCommand(terminalSessions, id, command)

UpdateCommand(id, command) ==
    /\ Step
    /\ ComponentReady
    /\ Has(terminalSessions, id)
    /\ Get(terminalSessions, id).isConnected
    /\ Get(terminalSessions, id).currentCommand # command
    /\ updateCommand(id, command)
    /\ UNCHANGED <<sshVars, view, location, mounted, urlIds, allInstances, instances, credentialId,
                   selectAll, timers, sockets, now, loads, delivered>>
    /\ autoScroll

\* Enter in the command input (handleKeyPress), or the Send button, which is
\* disabled while the command is blank
SendClick(id, button) ==
    /\ Step
    /\ ComponentReady
    /\ Has(terminalSessions, id)
    /\ Get(terminalSessions, id).isConnected
    /\ button => Get(terminalSessions, id).currentCommand # ""
    /\ Len(Get(terminalSessions, id).output) < MaxLog
    /\ LET r == sendCommand(terminalSessions, terminalSessions, sockets, id,
                            Get(terminalSessions, id).currentCommand)
       IN /\ terminalSessions' = r[1]
          /\ sockets' = r[2]
    /\ UNCHANGED <<sshVars, view, location, mounted, urlIds, allInstances, instances, credentialId,
                   selectAll, timers, now, loads, delivered>>
    /\ autoScroll

\* ---- SSHTab ----

\* the instances the SSH tab can list: i1 and i3 have credentials, i2 has none
SshIds == {"i1", "i2", "i3"}

\* results of the inventory query of the SSH tab: arrays of distinct instances
SshInventories ==
    {inv \in UNION {[1..n -> SshIds] : n \in 1..MaxRows} :
        \A j, k \in DOMAIN inv : j # k => inv[j] # inv[k]}

\* array.join(','): the elements with a ',' between neighbours, as the
\* sequence of the pieces of the resulting string
RECURSIVE Join(_)
\* mutant: only the first element is written
Join_first(arr) == IF arr = <<>> THEN <<>> ELSE <<arr[1]>>

Join(arr) ==
    IF arr = <<>> THEN <<>>
    ELSE IF Len(arr) = 1 THEN <<arr[1]>>
    ELSE <<arr[1], ",">> \o Join(Tail(arr))

\* string.split(','): the substrings between the commas; the empty string
\* splits into one empty substring
RECURSIVE Split(_, _)
Split(str, piece) ==
    IF str = <<>> THEN <<piece>>
    ELSE IF Head(str) = "," THEN <<piece>> \o Split(Tail(str), "")
    ELSE Split(Tail(str), IF piece = "" THEN Head(str) ELSE "?")

SshReady == view = "ssh" /\ mounted

\* values typed into the search box, and values of the Current State select
SearchQueries == {"", "web"}
StateFilters == {"running", "stopped"}

\* text.includes(q), for the texts and queries of the model: the empty string
\* is part of every text, any other query only of the text equal to it
Includes(text, q) == q = "" \/ text = q

\* instances.filter(instance => matchesSearch && matchesState)
filteredInstances ==
    SelectSeq(sshInstances, LAMBDA i :
        LET instance == InstanceOf(i)
            matchesSearch == \/ Includes(instance.name, searchQuery)
                             \/ Includes(instance.privateIp, searchQuery)
                             \/ Includes(instance.instanceId, searchQuery)
            matchesState == stateFilter = "all" \/ instance.state = stateFilter
        IN matchesSearch /\ matchesState)

\* typing in the search box
SetSearchQuery(q) ==
    /\ SshReady
    /\ q # searchQuery
    /\ searchQuery' = q
    /\ UNCHANGED <<sshInstances, selectedInstances, stateFilter, sshToast, view,
                   location, mounted, urlIds, allInstances, instances, credentialId,
                   terminalSessions, selectAll, timers, sockets, now, loads,
                   delivered, steps, scrolledUp>>

\* choosing a value of the Current State select
SetStateFilter(f) ==
    /\ SshReady
    /\ f # stateFilter
    /\ stateFilter' = f
    /\ UNCHANGED <<sshInstances, selectedInstances, searchQuery, sshToast, view,
                   location, mounted, urlIds, allInstances, instances, credentialId,
                   terminalSessions, selectAll, timers, sockets, now, loads,
                   delivered, steps, scrolledUp>>

\* the checkbox of a row
handleInstanceSelect(id, checked) ==
    selectedInstances' = IF checked THEN selectedInstances \cup {id}
                                    ELSE selectedInstances \ {id}

\* the table lists the filtered instances
InstanceSelectClick(id) ==
    /\ SshReady
    /\ SeqContains(filteredInstances, id)
    /\ handleInstanceSelect(id, id \notin selectedInstances)
    /\ UNCHANGED <<sshInstances, searchQuery, stateFilter, sshToast, view, location,
                   mounted, urlIds, allInstances, instances, credentialId,
                   terminalSessions, selectAll, timers, sockets, now, loads,
                   delivered, steps, scrolledUp>>

\* the checkbox of the table header: selects every listed row, or none
SelectAllRowsClick ==
    LET rows == {filteredInstances[k] : k \in DOMAIN filteredInstances}
        checked == ~(rows \subseteq selectedInstances)
    IN /\ SshReady
       /\ rows # {}
       /\ selectedInstances' = IF checked THEN rows ELSE {}
       /\ UNCHANGED <<sshInstances, searchQuery, stateFilter, sshToast, view, location,
                      mounted, urlIds, allInstances, instances, credentialId,
                      terminalSessions, selectAll, timers, sockets, now, loads,
                      delivered, steps, scrolledUp>>

\* mutant: instances without credentials are launched as well
handleConnect_unchecked ==
    LET instancesToConnect ==
            SelectSeq(sshInstances, LAMBDA i : i \in selectedInstances)
    IN IF Len(instancesToConnect) = 0
       THEN /\ sshToast' = "No instances selected"
            /\ UNCHANGED <<view, location, urlIds>>
       ELSE /\ view' = "page"
            /\ location' = "/terminal-management"
            /\ urlIds' = Split(Join(instancesToConnect), "")
            /\ sshToast' = "Opening terminal management"

\* "Connect SSH": a toast and nothing else when nothing is selected or a
\* selected instance has no credentials; otherwise the browser navigates to
\* the terminal-management page, which reads its `instances` parameter
handleConnect ==
    LET instancesToConnect ==
            SelectSeq(sshInstances, LAMBDA i : i \in selectedInstances)
        instancesWithoutCredentials ==
            SelectSeq(instancesToConnect, LAMBDA i : InstanceOf(i).credentialId = 0)
    IN IF Len(instancesToConnect) = 0
       THEN /\ sshToast' = "No instances selected"
            /\ UNCHANGED <<view, location, urlIds>>
       ELSE IF Len(instancesWithoutCredentials) > 0
       THEN /\ sshToast' = "Missing credentials"
            /\ UNCHANGED <<view, location, urlIds>>
       ELSE /\ view' = "page"
            /\ location' = "/terminal-management"
            /\ urlIds' = Split(Join(instancesToConnect), "")
            /\ sshToast' = "Opening terminal management"

\* the Connect SSH button, disabled while nothing is selected
ConnectSSHClick ==
    /\ SshReady
    /\ selectedInstances # {}
    /\ handleConnect
    /\ UNCHANGED <<sshInstances, selectedInstances, searchQuery, stateFilter, mounted,
                   allInstances, instances, credentialId, terminalSessions, selectAll,
                   timers, sockets, now, loads, delivered, steps, scrolledUp>>

\* the terminal-management page receives the inventory the SSH tab listed
LaunchLoad ==
    /\ sshInstances # <<>>
    /\ InventoryLoad(sshInstances)

\* ================= specification =================

\* TerminalManagementPage after its first render: the query is loading
InitPage ==
    /\ sshInstances = <<>>
    /\ selectedInstances = {}
    /\ searchQuery = ""
    /\ stateFilter = "running"
    /\ sshToast = ""
    /\ view = "page"
    /\ location = "/terminal-management"
    /\ mounted = TRUE
    /\ urlIds \in LaunchLists
    /\ allInstances = <<>>
    /\ instances = <<>>
    /\ credentialId = 0
    /\ terminalSessions = <<>>
    /\ selectAll = FALSE
    /\ timers = <<>>
    /\ sockets = <<>>
    /\ now = 0
    /\ loads = 0
    /\ delivered = <<>>
    /\ steps = 0
    /\ scrolledUp = {}

\* TerminalComponent after its first render and the first run of its
\* initialising effect
InitComponent ==
    /\ sshInstances = <<>>
    /\ selectedInstances = {}
    /\ searchQuery = ""
    /\ stateFilter = "running"
    /\ sshToast = ""
    /\ view = "component"
    /\ location = "/terminal"
    /\ mounted = TRUE
    /\ urlIds = <<>>
    /\ allInstances = <<>>
    /\ instances \in InstanceLists
    /\ credentialId \in CredentialProps
    /\ terminalSessions = NewSessions(instances)
    /\ selectAll = FALSE
    /\ timers = <<>>
    /\ sockets = <<>>
    /\ now = 0
    /\ loads = 1
    /\ delivered = <<>>
    /\ steps = 0
    /\ scrolledUp = {}

Init == InitPage \/ InitComponent

Next ==
    \/ Tick
    \/ \E s \in DOMAIN sockets : SocketOpen(s)
    \/ \E s \in DOMAIN sockets : \E f \in Frames(s) : SocketMessage(s, f)
    \/ \E s \in DOMAIN sockets : SocketFail(s)
    \/ \E s \in DOMAIN sockets : SocketClose(s)
    \/ \E throws \in BOOLEAN : TimerFire(throws)
    \/ Unmount
    \/ \E inv \in Inventories : InventoryLoad(inv)
    \/ DuplicateClick
    \/ \E id \in Keys(terminalSessions) : CloseTerminalClick(id)
    \/ ExitTerminalsClick
    \/ ToggleSelectAllClick
    \/ \E id \in Keys(terminalSessions) : ToggleSelectionClick(id)
    \/ DisconnectSelectedClick
    \/ \E file \in Files : FileUpload(file)
    \/ \E arr \in InstanceLists : InstancesChange(arr)
    \/ \E id \in Keys(terminalSessions) : \E throws \in BOOLEAN : ConnectClick(id, throws)
    \/ \E id \in Keys(terminalSessions) : DisconnectClick(id)
    \/ \E id \in Keys(terminalSessions) : \E c \in Commands : UpdateCommand(id, c)
    \/ \E id \in Keys(terminalSessions) : \E button \in BOOLEAN : SendClick(id, button)

Spec == Init /\ [][Next]_vars
SpecPage == InitPage /\ [][Next]_vars
SpecComp == InitComponent /\ [][Next]_vars

\* the SSH tab once its inventory has loaded, nothing selected
InitLaunch ==
    /\ sshInstances \in SshInventories
    /\ selectedInstances = {}
    /\ searchQuery = ""
    /\ stateFilter = "running"
    /\ sshToast = ""
    /\ view = "ssh"
    /\ location = "/"
    /\ mounted = TRUE
    /\ urlIds = <<>>
    /\ allInstances = <<>>
    /\ instances = <<>>
    /\ credentialId = 0
    /\ terminalSessions = <<>>
    /\ selectAll = FALSE
    /\ timers = <<>>
    /\ sockets = <<>>
    /\ now = 0
    /\ loads = 0
    /\ delivered = <<>>
    /\ steps = 0
    /\ scrolledUp = {}

NextLaunch ==
    \/ \E q \in SearchQueries : SetSearchQuery(q)
    \/ \E f \in StateFilters : SetStateFilter(f)
    \/ \E id \in SshIds : InstanceSelectClick(id)
    \/ SelectAllRowsClick
    \/ ConnectSSHClick
    \/ LaunchLoad

\* the terminal views with an operator who also scrolls the logs
NextScroll ==
    \/ Next
    \/ \E id \in Keys(terminalSessions) : ScrollUp(id)

SpecScroll == Init /\ [][NextScroll]_vars

\* from the SSH tab to the panes of the terminal-management page
SpecLaunch == InitLaunch /\ [][NextLaunch]_vars

\* ================= properties =================

LiveSockets == {s \in DOMAIN sockets : sockets[s].readyState \in Live}
SocketsOf(id) == {s \in DOMAIN sockets : sockets[s].instanceId = id}
Output(m, id) == Get(m, id).output
IsFrame(e) == e.content[1] = "frame"
IsOpened(e) == e.content[1] = OpenText
IsClosed(e) == e.content[1] = "Connection closed"

\* C1: the view holds at most one control connection (WebSocket) however
\* many panes are open: opening another target reuses the existing one.
C1_OneChannel == Cardinality(LiveSockets) <= 1

\* C2: every duplicateSession issues an identifier distinct from the
\* identifier of every pane open in the view, for any timing of the requests.
C2_DistinctIds ==
    [][DuplicateClick =>
          ~Has(terminalSessions, DuplicateId(terminalSessions[1].instanceId, now))]_vars

\* C3: exitTerminals makes exactly one transport-close call per open session
\* (one for each WebSocket whose connection is open, none for the others) and
\* the registry is empty afterwards.
C3_ExitClosesEachOpenSession ==
    [][ExitTerminalsClick =>
          /\ \A s \in DOMAIN sockets :
                sockets'[s].closeCalls - sockets[s].closeCalls =
                    IF sockets[s].readyState = "open" THEN 1 ELSE 0
          /\ terminalSessions' = <<>>]_vars

\* C4: once the view is torn down no WebSocket it opened is still open or
\* connecting.
C4_NoSocketOutlivesView == ~mounted => LiveSockets = {}

\* C5: closeTerminal(id) leaves no WebSocket of pane id open or connecting,
\* whatever state the pane was in, and changes no socket of another pane.
C5_CloseReleasesPane ==
    [][\A id \in Keys(terminalSessions) :
          CloseTerminalClick(id) =>
              /\ \A s \in SocketsOf(id) : sockets'[s].readyState \notin Live
              /\ \A s \in DOMAIN sockets \ SocketsOf(id) : sockets'[s] = sockets[s]]_vars

\* C6: every pane created at initialisation from the launch list gets a
\* connection without further user action: once its startup timer has run, a
\* WebSocket exists for it.
C6_StartupFanOut ==
    (view = "page" /\ mounted) =>
        \A id \in Keys(terminalSessions) :
            (Len(id) = 1 /\ \A k \in DOMAIN timers : timers[k].instanceId # id)
                => SocketsOf(id) # {}

\* the frames of a log, and the frames delivered for a pane, in order
RECURSIVE Contents(_)
Contents(seq) == IF seq = <<>> THEN <<>> ELSE <<Head(seq).content>> \o Contents(Tail(seq))
LoggedFrames(id) == Contents(SelectSeq(Output(terminalSessions, id), IsFrame))
DeliveredFrames(id) == Contents(SelectSeq(delivered, LAMBDA d : d.instanceId = id))

\* C7: each pane's log restricted to server frames is exactly the sequence of
\* frames delivered for that pane, in order, none lost, duplicated or reordered.
C7_TranscriptPerPane ==
    \A id \in Keys(terminalSessions) : LoggedFrames(id) = DeliveredFrames(id)

\* C8: a message event changes at most the pane whose identifier equals the
\* frame's instanceId; a frame with another identifier than the socket's pane,
\* or for a pane that is not in the registry, changes nothing.
C8_FrameRouting ==
    [][\A s \in DOMAIN sockets : \A f \in Frames(s) :
          SocketMessage(s, f) =>
              /\ Keys(terminalSessions') = Keys(terminalSessions)
              /\ \A q \in Keys(terminalSessions) :
                    q # f.instanceId => Get(terminalSessions', q) = Get(terminalSessions, q)
              /\ (f.instanceId # sockets[s].instanceId \/ ~Has(terminalSessions, f.instanceId))
                    => terminalSessions' = terminalSessions
              /\ Has(terminalSessions, f.instanceId) =>
                    Output(terminalSessions', f.instanceId) \in
                        {Output(terminalSessions, f.instanceId),
                         Append(Output(terminalSessions, f.instanceId),
                                [type |-> "output", content |-> f.data,
                                 instanceId |-> f.instanceId])}]_vars

\* C8 witness: a pane shows a frame of a socket that also received a frame
\* which was dropped
C8_Witness ==
    \E s \in DOMAIN sockets :
        /\ sockets[s].rx = 2
        /\ Has(terminalSessions, sockets[s].instanceId)
        /\ Len(LoggedFrames(sockets[s].instanceId)) = 1

\* C9: in the log of a pane no frame comes before the pane's connection was
\* opened, and none comes after a 'Connection closed' entry unless the pane
\* was opened again in between.
C9_FramesBetweenOpenAndClose ==
    \A id \in Keys(terminalSessions) :
        LET log == Output(terminalSessions, id) IN
        \A j \in DOMAIN log :
            IsFrame(log[j]) =>
                /\ \E s \in SocketsOf(id) : sockets[s].sent # <<>>
                /\ \A i \in 1..(j - 1) :
                      IsClosed(log[i]) => \E k \in (i + 1)..(j - 1) : IsOpened(log[k])

\* the pane an event of this step belongs to: a socket event, or a failing
\* connectToInstance
ConnectionEvent(id) ==
    \/ \E s \in SocketsOf(id) :
          \/ SocketOpen(s)
          \/ \E f \in Frames(s) : SocketMessage(s, f)
          \/ SocketFail(s)
          \/ SocketClose(s)
    \/ (timers # <<>> /\ Head(timers).instanceId = id /\ TimerFire(TRUE))
    \/ ConnectClick(id, TRUE)

AllIds == Keys(terminalSessions) \cup {sockets[s].instanceId : s \in DOMAIN sockets}
             \cup {timers[k].instanceId : k \in DOMAIN timers}

\* C10: an event on one pane's connection (open, message, error, close,
\* failure to connect) leaves every other pane exactly as it was.
C10_EventsScopedToPane ==
    [][\A id \in AllIds :
          ConnectionEvent(id) =>
              /\ Keys(terminalSessions') = Keys(terminalSessions)
              /\ \A q \in Keys(terminalSessions) \ {id} :
                    Get(terminalSessions', q) = Get(terminalSessions, q)]_vars

\* C10 witness: one pane has lost its connection while another pane is still
\* connected and shows its own output
C10_Witness ==
    \E p, q \in Keys(terminalSessions) :
        /\ p # q
        /\ \E k \in DOMAIN Output(terminalSessions, p) :
              IsClosed(Output(terminalSessions, p)[k])
        /\ Get(terminalSessions, q).isConnected
        /\ Output(terminalSessions, q) # <<>>
        /\ \A k \in DOMAIN Output(terminalSessions, q) :
              ~IsClosed(Output(terminalSessions, q)[k])

\* the connect requests sent on socket s
ConnectRequests(s) == SelectSeq(sockets[s].sent, LAMBDA msg : msg.type = "connect")

\* C11: the credentialId, keyName and region of every connect request are
\* those of the target of the pane the request is for; no default and no
\* credential shared between panes is put in their place.
C11_OwnCredentials ==
    \A s \in DOMAIN sockets :
        \A k \in DOMAIN ConnectRequests(s) :
            LET msg == ConnectRequests(s)[k]
                target == InstanceOf(sockets[s].instanceId[1])
            IN /\ msg.credentialId = target.credentialId
               /\ msg.keyName = target.keyName
               /\ msg.region = target.region

\* C12: duplicateSession issues an identifier that no pane has, creates a
\* pane under it with an empty log and a fresh connection state (not
\* connected, no socket, not selected), and leaves the original pane as it was.
C12_DuplicateIsFresh ==
    [][DuplicateClick =>
          LET original == terminalSessions[1].instanceId
              duplicate == DuplicateId(original, now)
          IN /\ ~Has(terminalSessions, duplicate)
             /\ Has(terminalSessions', duplicate)
             /\ Get(terminalSessions', duplicate).output = <<>>
             /\ ~Get(terminalSessions', duplicate).isConnected
             /\ Get(terminalSessions', duplicate).ws = 0
             /\ ~Get(terminalSessions', duplicate).isSelected
             /\ Get(terminalSessions', original) = Get(terminalSessions, original)]_vars

\* C13: when the timer that duplicateSession scheduled runs and the WebSocket
\* constructor does not throw, a new WebSocket is created for the duplicate
\* pane, for the target of that pane, and it is not a socket of another pane.
C13_DuplicateConnects ==
    [][(/\ timers # <<>>
        /\ Len(Head(timers).instanceId) = 2
        /\ Has(terminalSessions, Head(timers).instanceId)
        /\ TimerFire(FALSE))
          => \E s \in DOMAIN sockets' \ DOMAIN sockets :
                /\ sockets'[s].instanceId = Head(timers).instanceId
                /\ sockets'[s].instance =
                       Get(terminalSessions, Head(timers).instanceId).instance
                /\ s \notin WsOf(terminalSessions)]_vars

\* a pane is streaming when it is connected through an open socket on which
\* the server has answered the connect request
Streaming(id) ==
    /\ Has(terminalSessions, id)
    /\ Get(terminalSessions, id).isConnected
    /\ Get(terminalSessions, id).ws # 0
    /\ sockets[Get(terminalSessions, id).ws].readyState = "open"
    /\ sockets[Get(terminalSessions, id).ws].rx > 0

\* C14: a command is put on a connection only for a pane that is streaming;
\* in every other state of the pane the write is dropped.
C14_WriteOnlyWhenStreaming ==
    [][\A s \in DOMAIN sockets :
          (/\ Len(sockets'[s].sent) > Len(sockets[s].sent)
           /\ sockets'[s].sent[Len(sockets'[s].sent)].type = "command")
             => Streaming(sockets[s].instanceId)]_vars

\* the failure notices of the initialising effect: it calls toast nowhere
openFailed == {}

\* C15: after the initialising effect has run on a loaded inventory, every id
\* of the launch parameter has a pane or a failure notice naming it.
C15_EveryLaunchIdAnswered ==
    [][\A inv \in Inventories :
          InventoryLoad(inv) =>
              \A k \in DOMAIN urlIds :
                  Has(terminalSessions', <<urlIds[k]>>) \/ urlIds[k] \in openFailed]_vars

\* C19: at most one WebSocket is open or connecting for a pane.
C19_OneSocketPerPane ==
    \A id \in AllIds : Cardinality(SocketsOf(id) \cap LiveSockets) <= 1

IsPrefix(a, b) == Len(a) <= Len(b) /\ \A k \in DOMAIN a : a[k] = b[k]

SocketEvent ==
    \E s \in DOMAIN sockets :
        \/ SocketOpen(s)
        \/ \E f \in Frames(s) : SocketMessage(s, f)
        \/ SocketFail(s)
        \/ SocketClose(s)

ReadyStates(socks) == [s \in DOMAIN socks |-> socks[s].readyState]

\* a close operation `call` is idempotent on pane id: a second call, by a
\* handler of the new render or by one of the same render as the first,
\* leaves the registry and the connections as the first call left them
Idempotent(call(_, _, _, _), id) ==
    LET once == call(terminalSessions, terminalSessions, sockets, id)
        twice == call(once[1], once[1], once[2], id)
        twiceSameRender == call(terminalSessions, once[1], once[2], id)
    IN /\ twice = once
       /\ twiceSameRender[1] = once[1]
       /\ ReadyStates(twiceSameRender[2]) = ReadyStates(once[2])

\* C18: closing is idempotent from every pane state: closeTerminal (page) or
\* disconnectFromInstance (component) called twice for a pane leaves the state
\* that one call leaves.
C18_CloseIdempotent ==
    \A id \in Keys(terminalSessions) :
        /\ PageReady => Idempotent(closeTerminalCall, id)
        /\ ComponentReady => Idempotent(disconnectFromInstanceCall, id)

\* C18 witness: a pane was disconnected while its socket was open; the socket
\* is closing after one close() call and the pane, still in the registry, can
\* be closed again
C18_Witness ==
    \E s \in DOMAIN sockets :
        /\ sockets[s].readyState = "closing"
        /\ sockets[s].closeCalls = 1
        /\ Has(terminalSessions, sockets[s].instanceId)
        /\ ~Get(terminalSessions, sockets[s].instanceId).isConnected
        /\ Get(terminalSessions, sockets[s].instanceId).ws = 0

\* C16: the launch parameter round-trips: the navigation of handleConnect hands
\* the page exactly the selected instance ids, and on the same inventory the
\* page creates one pane per selected instance, all in the one view that the
\* one navigation opened.
C16_LaunchRoundTrip ==
    [][/\ (ConnectSSHClick /\ view' = "page") =>
             /\ urlIds' = SelectSeq(sshInstances, LAMBDA i : i \in selectedInstances)
             /\ location' = "/terminal-management"
       /\ (view = "page" /\ LaunchLoad) =>
             /\ Keys(terminalSessions') = {<<i>> : i \in selectedInstances}
             /\ Len(terminalSessions') = Cardinality(selectedInstances)
             /\ \A k \in DOMAIN terminalSessions' :
                   terminalSessions'[k].instance =
                       InstanceOf(terminalSessions'[k].instanceId[1])]_vars

\* C16 witness: two instances were selected and the page shows their two panes
C16_Witness ==
    /\ view = "page"
    /\ loads > 0
    /\ Cardinality(selectedInstances) = 2
    /\ Len(terminalSessions) = 2

\* C21: a pane that the operator has scrolled up stays scrolled up when new
\* output arrives, in that pane or in another one.
C21_ScrollLock ==
    [][(\E q \in Keys(terminalSessions) \cap Keys(terminalSessions') :
            Len(Output(terminalSessions', q)) > Len(Output(terminalSessions, q)))
          => \A id \in scrolledUp : Has(terminalSessions', id) => id \in scrolledUp']_vars

\* C22: an event of a pane that is not in the registry (socket open, message,
\* error, close, a delayed connect timer) neither creates an entry for it nor
\* changes a remaining pane: the registry stays as it is.
C22_ClosedPaneStaysClosed ==
    [][\A id \in AllIds \ Keys(terminalSessions) :
          (\/ ConnectionEvent(id)
           \/ (timers # <<>> /\ Head(timers).instanceId = id /\ TimerFire(FALSE)))
             => terminalSessions' = terminalSessions]_vars

\* C22 witness: a pane of the page was closed while its socket was open and
\* the close event of that socket has arrived since
C22_Witness ==
    /\ view = "page"
    /\ mounted
    /\ \E s \in DOMAIN sockets :
          /\ ~Has(terminalSessions, sockets[s].instanceId)
          /\ sockets[s].sent # <<>>
          /\ sockets[s].closeCalls = 1
          /\ sockets[s].readyState = "closed"

\* C23: a pane is marked connected exactly when it holds a socket.
C23_ConnectedIffSocket ==
    \A k \in DOMAIN terminalSessions :
        terminalSessions[k].isConnected <=> terminalSessions[k].ws # 0

\* C23 witness: one pane is connected and holds its socket, after another
\* socket of the view has been closed
C23_Witness ==
    \E k \in DOMAIN terminalSessions :
        /\ terminalSessions[k].isConnected
        /\ terminalSessions[k].ws # 0
        /\ \E s \in DOMAIN sockets : sockets[s].readyState = "closed"

\* C24: in the component, a close or error event of a socket that the operator
\* disconnected does not touch a pane that holds another socket by now: the
\* pane stays connected and keeps its socket.
C24_LateCloseIgnored ==
    [][\A s \in DOMAIN sockets :
          LET id == sockets[s].instanceId IN
          (/\ view = "component"
           /\ sockets[s].closeCalls > 0
           /\ Has(terminalSessions, id)
           /\ Get(terminalSessions, id).ws \notin {0, s}
           /\ (SocketClose(s) \/ SocketFail(s)))
             => /\ Get(terminalSessions', id).isConnected
                /\ Get(terminalSessions', id).ws = Get(terminalSessions, id).ws]_vars

Last(seq) == seq[Len(seq)]
Inputs(log) == SelectSeq(log, LAMBDA e : e.type = "input")

C26_DisconnectSelectedFrame ==
    [][DisconnectSelectedClick =>
          LET Target(x) == x.isSelected /\ x.isConnected
              closed == {terminalSessions[k].ws :
                            k \in {j \in DOMAIN terminalSessions :
                                      Target(terminalSessions[j])}} \ {0}
          IN /\ DOMAIN terminalSessions' = DOMAIN terminalSessions
             /\ \A k \in DOMAIN terminalSessions :
                   terminalSessions'[k] =
                       IF Target(terminalSessions[k])
                       THEN [terminalSessions[k] EXCEPT !.isConnected = FALSE, !.ws = 0]
                       ELSE terminalSessions[k]
             /\ \A s \in DOMAIN sockets :
                   IF s \in closed
                   THEN /\ sockets'[s].closeCalls = sockets[s].closeCalls + 1
                        /\ sockets'[s].readyState \notin Live
                        /\ sockets'[s].sent = sockets[s].sent
                   ELSE sockets'[s] = sockets[s]]_vars

\* C26 witness: of two panes the selected one was disconnected: it is still in
\* the registry, selected, and its socket is closing
C26_Witness ==
    /\ view = "page"
    /\ Len(terminalSessions) = 2
    /\ \E s \in DOMAIN sockets :
          /\ sockets[s].readyState = "closing"
          /\ sockets[s].closeCalls = 1
          /\ Has(terminalSessions, sockets[s].instanceId)
          /\ Get(terminalSessions, sockets[s].instanceId).isSelected
          /\ ~Get(terminalSessions, sockets[s].instanceId).isConnected
          /\ Output(terminalSessions, sockets[s].instanceId) # <<>>

\* C27: Select All, pressed while some pane is unselected, leaves every pane
\* selected, whatever toggles, duplications and closes came before (stated
\* for panes that come from one run of the initialising effect).
C27_SelectAllSelects ==
    [][(/\ ToggleSelectAllClick
        /\ loads = 1
        /\ \E k \in DOMAIN terminalSessions : ~terminalSessions[k].isSelected)
          => \A k \in DOMAIN terminalSessions' : terminalSessions'[k].isSelected]_vars

\* C28: Connect SSH writes to the launch URL only ids of instances that the
\* filtered table lists when it is clicked.
C28_LaunchOnlyVisible ==
    [][(ConnectSSHClick /\ view' = "page") =>
          \A k \in DOMAIN urlIds' : SeqContains(filteredInstances, urlIds'[k])]_vars

\* C29: handleConnect is all-or-nothing: when no selected instance is listed in
\* the inventory, or a selected instance has no credentialId, the click does
\* not navigate and leaves the selection as it is.
C29_ConnectAllOrNothing ==
    [][(/\ ConnectSSHClick
        /\ \/ \A k \in DOMAIN sshInstances : sshInstances[k] \notin selectedInstances
           \/ \E k \in DOMAIN sshInstances :
                 /\ sshInstances[k] \in selectedInstances
                 /\ InstanceOf(sshInstances[k]).credentialId = 0)
          => /\ view' = "ssh"
             /\ location' = location
             /\ urlIds' = urlIds
             /\ selectedInstances' = selectedInstances]_vars

\* C29 witness: Connect SSH was refused for a selection that holds an instance
\* with credentials and one without; the SSH tab still shows that selection
C29_Witness ==
    /\ view = "ssh"
    /\ sshToast = "Missing credentials"
    /\ location = "/"
    /\ \E i, j \in selectedInstances :
          InstanceOf(i).credentialId = 0 /\ InstanceOf(j).credentialId # 0

\* C30: in the component, connectToInstance for a pane that is not in
\* terminalSessions, or without a credentialId, creates no WebSocket, sends
\* nothing and leaves terminalSessions unchanged.
C30_ConnectNeedsSessionAndCredential ==
    [][\A id \in Keys(terminalSessions) : \A throws \in BOOLEAN :
          (/\ view = "component"
           /\ (~Capture(terminalSessions, id).found \/ credentialId = 0)
           /\ ConnectClick(id, throws))
             => /\ sockets' = sockets
                /\ terminalSessions' = terminalSessions]_vars

\* C30 witness: Connect was clicked in a component that has no credentialId;
\* no socket exists and the panes are as the initialising effect created them
C30_Witness ==
    /\ view = "component"
    /\ mounted
    /\ credentialId = 0
    /\ loads = 1
    /\ steps > 0
    /\ sockets = <<>>
    /\ terminalSessions = NewSessions(instances)
====
